---- MODULE Spec2Model ----
(***************************************************************************)
(* Model of the download orchestration of video-downloader-backend:        *)
(*   src/src/services/ytDlpService.ts  (run, runYtDlpRaw, buildCommonArgs, *)
(*       cleanInstagramUrl, detectPlatform, downloadVideoAndExtractAudio)  *)
(*   src/unnamed/part_002              (POST /api/download handler)        *)
(*   src/unnamed/part_004              (jsonStore: saveRecord/listRecords) *)
(*                                                                         *)
(* Strings are sequences of tokens.  A URL is a sequence of URL tokens, a  *)
(* file name is a sequence of characters, an argument list is a sequence   *)
(* of arguments, each argument itself a sequence of tokens.  An optional   *)
(* value (T | undefined) is a sequence of length at most one.              *)
(*                                                                         *)
(* Spec and SpecConc are the handling of requests.  SpecRun, SpecStore,    *)
(* SpecUrl and SpecMeta take one component alone: one call of run, the     *)
(* record store, the functions of the URL, the fields derived from the     *)
(* probe metadata.                                                         *)
(*                                                                         *)
(* One action is one turn of the Node event loop: the callback of an       *)
(* external event together with every continuation that runs before the    *)
(* next await on a child process.                                          *)
(***************************************************************************)
EXTENDS Integers, Sequences, FiniteSets, TLC

VARIABLES
    slots,      \* the requests that arrive in this run (fixed by Init)
    env,        \* the inputs this run draws from (fixed by Init)
    pc,         \* pc[r]: where request r's handler is suspended
    req,        \* req[r]: the locals of downloadVideoAndExtractAudio
    launched,   \* launched[r]: every subprocess request r spawned, in order
    downloads,  \* names of the files in the downloads/ directory
    audios,     \* names of the files in the audios/ directory
    wrote,      \* wrote[r]: the files the subprocesses of request r wrote
    records,    \* data/records.json: the stored records, newest first
    saves,      \* saves[r]: number of saveRecord calls made for request r
    result,     \* result[r]: the DownloadResult returned to the handler, if any
    response,   \* response[r]: the HTTP response sent, if any
    proc,       \* one call of run taken alone: its child and its promise
    hist,       \* the store taken alone: the calls made on it and their returns
    input,      \* a pure function taken alone: its argument
    output      \* a pure function taken alone: what it returned

\* the variables of the components taken alone; the request handling leaves
\* them as they are
alone == <<proc, hist, input, output>>

vars == <<slots, env, pc, req, launched, downloads, audios, wrote, records,
          saves, result, response, alone>>

----------------------------------------------------------------------------
(* Bounds *)

NumReq == 2         \* concurrent requests in SpecConc
MaxUrlLen == 3      \* tokens in a submitted URL
IdLen == 2          \* characters in a request id
MaxFiles == 1       \* files one subprocess leaves behind at most

Requests == 1..NumReq

----------------------------------------------------------------------------
(* Strings *)

None == <<>>
Some(v) == <<v>>

StartsWith(s, p) ==
    /\ Len(p) <= Len(s)
    /\ SubSeq(s, 1, Len(p)) = p

EndsWith(s, p) ==
    /\ Len(p) <= Len(s)
    /\ SubSeq(s, Len(s) - Len(p) + 1, Len(s)) = p

\* String.prototype.includes on a token sequence, for a one-token needle
Includes(s, tok) == \E i \in 1..Len(s) : s[i] = tok

\* s.split(tok)[0]: the part of s before the first occurrence of tok
RECURSIVE SplitFirst(_, _)
SplitFirst(s, tok) ==
    IF s = <<>> \/ Head(s) = tok THEN <<>>
    ELSE <<Head(s)>> \o SplitFirst(Tail(s), tok)

RECURSIVE Flatten(_)
Flatten(ss) == IF ss = <<>> THEN <<>> ELSE Head(ss) \o Flatten(Tail(ss))

SeqsUpTo(S, n) == UNION {[1..k -> S] : k \in 1..n}

----------------------------------------------------------------------------
(* URLs and platform-dependent pure functions (ytDlpService.ts) *)

TIKTOK == "tiktok.com"
INSTAGRAM == "instagram.com"
QMARK == "?"

UrlBodyTokens == {TIKTOK, INSTAGRAM, QMARK, "/x"}

\* the strings that carry a scheme
Urls == {<<"https://">> \o b : b \in SeqsUpTo(UrlBodyTokens, MaxUrlLen)}

\* the request bodies: no url field, or a url field holding any string
Bodies == {None} \cup {Some(s) : s \in Urls \cup SeqsUpTo(UrlBodyTokens, MaxUrlLen)}

detectPlatform(url) ==
    IF Includes(url, TIKTOK) THEN "tiktok"
    ELSE IF Includes(url, INSTAGRAM) THEN "instagram"
    ELSE "unknown"

cleanInstagramUrl(url) ==
    IF Includes(url, INSTAGRAM) THEN SplitFirst(url, QMARK) ELSE url

\* the server runs in the Linux image of the Dockerfile: process.platform is
\* never "win32"
Win32 == FALSE

getPythonCommand == IF Win32 THEN "python.exe" ELSE "python"

getFFmpegLocation == IF Win32 THEN <<"ffmpeg/bin">> ELSE <<>>

MODERN_UA == <<"Mozilla/5.0">>

BaseArgs ==
    << <<"--geo-bypass">>, <<"--user-agent">>, MODERN_UA >>
    \o (IF getFFmpegLocation # <<>>
        THEN << <<"--ffmpeg-location">>, getFFmpegLocation >> ELSE <<>>)

TikTokArgs ==
    << <<"--extractor-args">>,
       <<"tiktok:player_url=1,music_download=1,age_restricted=1,bypass_age_gate=1">>,
       <<"--no-check-certificates">>, <<"--ignore-errors">> >>

InstagramArgs ==
    << <<"--referer">>, <<"https://www.instagram.com/">>,
       <<"--extractor-args">>, <<"instagram:api=1">>,
       <<"--sleep-requests">>, <<"3">>, <<"--sleep-interval">>, <<"3">>,
       <<"--no-check-certificates">>, <<"--ignore-errors">>,
       <<"--extractor-retries">>, <<"3">> >>

\* variant: the base profile only
buildCommonArgsBaseOnly(url) == BaseArgs

buildCommonArgs(url) ==
    BaseArgs
    \o (IF Includes(url, TIKTOK) THEN TikTokArgs ELSE <<>>)
    \o (IF Includes(url, INSTAGRAM) THEN InstagramArgs ELSE <<>>)

\* the arguments runYtDlpWithFallbacks hands to runYtDlpRaw
WithCommonArgs(url, args) == buildCommonArgs(url) \o args

\* s contains the contiguous run of arguments t
HasRun(s, t) ==
    \E i \in 0..(Len(s) - Len(t)) : SubSeq(s, i + 1, i + Len(t)) = t

----------------------------------------------------------------------------
(* Request ids and output templates *)

IdChars == {"a", "-"}

\* crypto.randomUUID(): a string of fixed length, dashes included
UUIDs == [1..IdLen -> IdChars]

DASH == <<"-">>
AUDIO == <<"a", "u", "d", "i", "o">>
DOT == <<".">>
MP3 == <<"m", "p", "3">>
MP4 == <<"m", "p", "4">>

DOWNLOADS == "downloads"
AUDIOS == "audios"

\* a template is [dir, stem, fields]: the file goes to dir, its name is stem
\* followed by the extractor's value for each %(field)s, "." before ext
outputTemplate(id) == <<DOWNLOADS, "/">> \o id \o DASH \o <<"%(title)s", ".", "%(ext)s">>
audioTemplate(id) == <<AUDIOS, "/">> \o id \o DASH \o AUDIO \o <<".", "%(ext)s">>

ProbeArgs(cleanUrl) == << <<"-J">>, <<"--no-playlist">>, cleanUrl >>

VideoArgs(id, cleanUrl) ==
    << <<"-f">>, <<"bv*+ba/best">>, <<"--remux-video">>, <<"mp4">>,
       <<"-o">>, outputTemplate(id), cleanUrl >>

AudioArgs(id, cleanUrl) ==
    << <<"-x">>, <<"--audio-format">>, <<"mp3">>, <<"--audio-quality">>, <<"0">>,
       <<"-o">>, audioTemplate(id), cleanUrl >>

----------------------------------------------------------------------------
(* Probe output and the enrichment fields derived from it                  *)
(* (downloadVideoAndExtractAudio, lines 138-165)                           *)

\* JavaScript value of a music field: undefined, a string or an array of
\* strings
JsUndef == [kind |-> "undefined", str |-> <<>>, arr |-> <<>>]
JsStr(s) == [kind |-> "string", str |-> s, arr |-> <<>>]
JsArr(a) == [kind |-> "array", str |-> <<>>, arr |-> a]

NoMusic == [playUrl |-> JsUndef, downloadUrl |-> JsUndef, url |-> JsUndef]

\* the parsed metadata object; every field is optional
EmptyMeta ==
    [title |-> None, thumbnails |-> None, thumbnail |-> None,
     upload_date |-> None, formats |-> None, music |-> None, track |-> None,
     song |-> None]

HTTP == "http"
UrlA == <<HTTP, "://cdn/a">>
UrlB == <<HTTP, "://cdn/b">>

FullMeta ==
    [title |-> Some("Title"),
     thumbnails |-> Some(<< [url |-> Some(UrlA)], [url |-> Some(UrlB)] >>),
     thumbnail |-> Some(UrlA),
     upload_date |-> Some("20240101"),
     formats |-> Some(<<
        [acodec |-> Some("mp4a"), vcodec |-> Some("avc1"), abr |-> Some(128), url |-> Some(UrlA)],
        [acodec |-> Some("mp4a"), vcodec |-> Some("none"), abr |-> Some(64), url |-> Some(UrlB)] >>),
     music |-> None, track |-> None, song |-> None]

MusicMeta ==
    [EmptyMeta EXCEPT !.title = Some("Title"),
        !.music = Some([NoMusic EXCEPT !.playUrl = JsStr(UrlA)])]

\* what the probe prints: a JSON document or text that JSON.parse rejects
\* (the empty string included)
ProbeStdouts ==
    { [json |-> FALSE, text |-> "", meta |-> EmptyMeta],
      [json |-> FALSE, text |-> "ERROR", meta |-> EmptyMeta],
      [json |-> TRUE, text |-> "{}", meta |-> EmptyMeta],
      [json |-> TRUE, text |-> "{..}", meta |-> FullMeta],
      [json |-> TRUE, text |-> "{music}", meta |-> MusicMeta] }

\* try { metadata = JSON.parse(jsonStdout) } catch { metadata = undefined }
ParseMetadata(stdout) == IF stdout.json THEN Some(stdout.meta) ELSE None

\* variant: a missing title is replaced by a default
FieldDefaulting(metadata, f) ==
    IF metadata = None THEN (IF f = "title" THEN Some("untitled") ELSE None)
    ELSE metadata[1][f]

\* metadata?.field
Field(metadata, f) == IF metadata = None THEN None ELSE metadata[1][f]

Truthy(optStr) == optStr # None /\ optStr[1] # <<>>

thumbnailUrlOf(metadata) ==
    LET ts == Field(metadata, "thumbnails") IN
    IF ts # None
    THEN (IF Len(ts[1]) > 0 THEN ts[1][Len(ts[1])].url ELSE None)
    ELSE Field(metadata, "thumbnail")

AbrOrZero(f) == IF f.abr = None THEN 0 ELSE f.abr[1]

\* Array.prototype.sort with (a, b) => (b.abr || 0) - (a.abr || 0): stable,
\* descending
RECURSIVE InsertByAbr(_, _)
InsertByAbr(x, sorted) ==
    IF sorted = <<>> THEN <<x>>
    ELSE IF AbrOrZero(Head(sorted)) >= AbrOrZero(x)
         THEN <<Head(sorted)>> \o InsertByAbr(x, Tail(sorted))
         ELSE <<x>> \o sorted

RECURSIVE SortByAbr(_)
SortByAbr(fs) ==
    IF fs = <<>> THEN <<>>
    ELSE InsertByAbr(fs[Len(fs)], SortByAbr(SubSeq(fs, 1, Len(fs) - 1)))

\* variant: every entry with an audio codec is kept
HasAudio(f) == f.acodec # None /\ f.acodec[1] # ""

IsAudioOnly(f) == f.acodec # None /\ f.acodec[1] # "" /\ f.vcodec = Some("none")

AudioOnly(formats) == SortByAbr(SelectSeq(formats, IsAudioOnly))

streamAudioUrl(metadata) ==
    LET fs == Field(metadata, "formats") IN
    IF fs = None THEN None
    ELSE LET audioOnly == AudioOnly(fs[1]) IN
         IF Len(audioOnly) > 0 THEN audioOnly[1].url ELSE None

IsHttpString(v) == v.kind = "string" /\ StartsWith(v.str, <<HTTP>>)

FirstOf(v) ==
    IF v.kind = "array" /\ Len(v.arr) > 0 THEN JsStr(v.arr[1]) ELSE JsUndef

\* metadata?.music || metadata?.track || metadata?.song
musicOf(metadata) ==
    IF Field(metadata, "music") # None THEN Field(metadata, "music")
    ELSE IF Field(metadata, "track") # None THEN Field(metadata, "track")
    ELSE Field(metadata, "song")

musicCandidates(metadata) ==
    LET m == musicOf(metadata)
        music == IF m = None THEN NoMusic ELSE m[1]
    IN << music.playUrl, music.downloadUrl, music.url,
          FirstOf(music.playUrl), FirstOf(music.downloadUrl), FirstOf(music.url) >>

\* candidates.find(u => typeof u === "string" && u.startsWith("http"))
FindHttp(cands) ==
    LET hits == SelectSeq(cands, IsHttpString) IN
    IF hits = <<>> THEN None ELSE Some(hits[1].str)

\* variant: the music fields are consulted for every platform
audioUrlOfAnyPlatform(metadata, platform) ==
    LET a == streamAudioUrl(metadata) IN
    IF ~Truthy(a) THEN FindHttp(musicCandidates(metadata)) ELSE a

audioUrlOf(metadata, platform) ==
    LET a == streamAudioUrl(metadata) IN
    IF ~Truthy(a) /\ platform = "tiktok" THEN FindHttp(musicCandidates(metadata))
    ELSE a

----------------------------------------------------------------------------
(* The extractor subprocess: what it leaves on disk *)

Titles == {<<"t">>}
Exts == {MP3, MP4}

\* the argument after "-o", if any
OutTemplate(args) ==
    LET at == {i \in 1..(Len(args) - 1) : args[i] = <<"-o">>} IN
    IF at = {} THEN None ELSE Some(args[(CHOOSE i \in at : TRUE) + 1])

\* the extractor fills %(title)s and %(ext)s of an output template
RECURSIVE Fill(_, _, _)
Fill(t, title, ext) ==
    IF t = <<>> THEN <<>>
    ELSE (IF Head(t) = "%(title)s" THEN title
          ELSE IF Head(t) = "%(ext)s" THEN ext
          ELSE <<Head(t)>>) \o Fill(Tail(t), title, ext)

TemplateDir(t) == t[1]
TemplateName(t) == SubSeq(t, 3, Len(t))

\* variant: the scan takes any file of the directory
VideoFilesOfAny(dir, id) == dir

\* fs.readdirSync(downloadsDir).filter(f => f.startsWith(id + "-"))
VideoFilesOf(dir, id) == {f \in dir : StartsWith(f, id \o DASH)}

\* variant: the scan does not look at the extension
AudioFilesOfAnyExt(dir, id) == {f \in dir : StartsWith(f, id \o DASH \o AUDIO)}

\* fs.readdirSync(audiosDir).find(f => f.startsWith(id + "-audio") && f.endsWith(".mp3"))
AudioFilesOf(dir, id) ==
    {f \in dir : StartsWith(f, id \o DASH \o AUDIO) /\ EndsWith(f, DOT \o MP3)}

\* variant: the path is the bare file name
RelPathNameOnly(dir, name) == name

\* path.relative(process.cwd(), path.join(dir, name))
RelPath(dir, name) == <<dir, "/">> \o name

----------------------------------------------------------------------------
(* HTTP layer: error classification of the catch block (part_002, 66-92) *)

ExitCodes == {"1", "null"}
Stderrs == {<<>>, <<"ERROR:", "network">>}

\* new Error(`Command failed (${code}): ${command} ${args.join(" ")}\n${stderr}`)
CommandFailed(code, cmd, args, stderr) ==
    <<"Command failed (", code, "): ", cmd>> \o Flatten(args) \o stderr

\* the error 'error' event of a child that could not be spawned
SpawnFailed(cmd) == <<"spawn ", cmd, " ENOENT">>

FileNotFound == <<"Downloaded file ", "not found">>

\* error.message?.includes(word), on the tokens of the message
Mentions(msg, words) == \E w \in words : Includes(msg, w)

\* variant: no NotFoundError category
ClassifyWithoutNotFound(msg) ==
    IF Mentions(msg, {"yt-dlp", "yt_dlp"})
        THEN [status |-> 422, error |-> "ExtractionError", details |-> msg]
    ELSE IF Mentions(msg, {"network", "connection", "timeout"})
        THEN [status |-> 503, error |-> "NetworkError", details |-> msg]
    ELSE IF Mentions(msg, {"permission", "access"})
        THEN [status |-> 403, error |-> "AccessError", details |-> msg]
    ELSE [status |-> 500, error |-> "DownloadError", details |-> msg]

Classify(msg) ==
    IF Mentions(msg, {"yt-dlp", "yt_dlp"})
        THEN [status |-> 422, error |-> "ExtractionError", details |-> msg]
    ELSE IF Mentions(msg, {"network", "connection", "timeout"})
        THEN [status |-> 503, error |-> "NetworkError", details |-> msg]
    ELSE IF Mentions(msg, {"not found", "404"})
        THEN [status |-> 404, error |-> "NotFoundError", details |-> msg]
    ELSE IF Mentions(msg, {"permission", "access"})
        THEN [status |-> 403, error |-> "AccessError", details |-> msg]
    ELSE [status |-> 500, error |-> "DownloadError", details |-> msg]

NoResponse == [status |-> 0, error |-> "", details |-> <<>>]
Success == [status |-> 200, error |-> "", details |-> <<>>]

----------------------------------------------------------------------------
(* Result store (part_004) *)

\* variant: the record is returned but never written back
saveRecordLost(recs, record) == recs

\* the StoredRecord made of a DownloadResult
Stored(record) == record @@ ("storedAt" :> "now")

\* variant: the record is pushed at the end
saveRecordPush(recs, record) == Append(recs, Stored(record))

\* a store that writes the new record over what the file held
saveRecordOverwrite(recs, record) == <<Stored(record)>>

\* saveRecord: unshift the record, stamped with storedAt; recs is what
\* records.json holds (ensureDb writes an empty list when the file is missing)
saveRecord(recs, record) == <<Stored(record)>> \o recs

\* listRecords: what records.json holds
listRecords(recs) == recs

\* what new URL(s) accepts among the strings of the model: a scheme followed
\* by a non-empty host
IsUrl(s) == Len(s) > 1 /\ s[1] = "https://" /\ s[2] # QMARK

\* variant: any string passes as url
requestSchemaAnyString(body) == body # None

\* z.object({url: z.string().url()}).safeParse(req.body).success; the body is
\* the url field if it has one
requestSchema(body) == body # None /\ IsUrl(body[1])

ValidationError == [status |-> 400, error |-> "Validation Error", details |-> <<>>]

----------------------------------------------------------------------------
(* State *)

NoReq ==
    [body |-> None, url |-> <<>>, id |-> <<>>, platform |-> "unknown", cleanUrl |-> <<>>,
     jsonStdout |-> None, title |-> None, thumbnailUrl |-> None, publishedAt |-> None,
     audioUrl |-> None, filename |-> None]

Launch(step, cmd, args) ==
    [step |-> step, cmd |-> cmd, args |-> args, outcome |-> "running", writes |-> 0]

Last(r) == launched[r][Len(launched[r])]

Running(r) == launched[r] # <<>> /\ Last(r).outcome = "running"

\* the inputs a run draws from: the submitted URLs, the ids randomUUID may
\* return, the probe outputs, the commands that are not installed (spawning
\* them always fails), and whether an installed command may fail as well
SampleUrls ==
    { <<"https://", TIKTOK, "/x">>,
      <<"https://", INSTAGRAM, QMARK, "/x">>,
      <<"https://", "/x">>,
      <<"https://", "/x", QMARK, INSTAGRAM>>,
      <<"https://", INSTAGRAM, QMARK, TIKTOK>>,
      <<"https://", TIKTOK, QMARK, INSTAGRAM>> }

\* bodies that fail validation: no url field, a url without scheme, a scheme
\* without host
SampleBadBodies == {None, Some(<<TIKTOK, "/x">>), Some(<<"https://", QMARK, "/x">>)}

\* a single request: which id it draws makes no difference to it
WideEnv ==
    [pool |-> {Some(u) : u \in SampleUrls} \cup SampleBadBodies, ids |-> {[i \in 1..IdLen |-> "a"]},
     stdouts |-> ProbeStdouts, missing |-> {}, flaky |-> TRUE]

InitRequests(s, e) ==
    /\ slots = s
    /\ env = e
    /\ pc = [r \in Requests |-> "idle"]
    /\ req = [r \in Requests |-> NoReq]
    /\ launched = [r \in Requests |-> <<>>]
    /\ downloads = {}
    /\ audios = {}
    /\ wrote = [r \in Requests |-> {}]
    /\ records = <<>>
    /\ saves = [r \in Requests |-> 0]
    /\ result = [r \in Requests |-> None]
    /\ response = [r \in Requests |-> NoResponse]

\* no call of run, no call on the store, no pure function under study
NoProc == [phase |-> "none"]
NoHist == [calls |-> <<>>, returned |-> <<>>, listing |-> <<>>]

InitWith(s, e) ==
    /\ InitRequests(s, e)
    /\ proc = NoProc
    /\ hist = NoHist
    /\ input = <<>>
    /\ output = <<>>

Init == InitWith({1}, WideEnv)

----------------------------------------------------------------------------
(* Actions *)

\* run(command, args): spawn one more child for request r
Spawn(r, step, cmd, args) ==
    launched' = [launched EXCEPT ![r] = Append(@, Launch(step, cmd, args))]

\* the current child of r has ended with this outcome, and runYtDlpRaw
\* or its caller spawns the next one
Ended(c, outcome) == [c EXCEPT !.outcome = outcome, !.writes = 0]

EndThenSpawn(r, outcome, step, cmd, args) ==
    launched' = [launched EXCEPT ![r] =
        Append([@ EXCEPT ![Len(@)] = Ended(@, outcome)], Launch(step, cmd, args))]

EndChild(r, outcome) ==
    launched' = [launched EXCEPT ![r][Len(launched[r])] = Ended(@, outcome)]

\* variant: the catch block sends nothing
RespondErrorUnanswered(r, msg) == UNCHANGED <<response, pc>>

\* the catch block of the handler: classify and answer
RespondError(r, msg) ==
    /\ response' = [response EXCEPT ![r] = Classify(msg)]
    /\ pc' = [pc EXCEPT ![r] = "done"]

\* the ids of the requests that were posted
UsedIds == {req[q].id : q \in {q \in Requests : pc[q] # "idle"}}

\* variant: an id may be drawn again
randomUUIDRepeating(ids, used) == ids

\* randomUUID(): an id that was not drawn before
randomUUID(ids, used) == ids \ used

\* the DownloadResult assembled at the end of the orchestrator
Assemble(q, audioPath) ==
    [id |-> q.id, platform |-> q.platform, inputUrl |-> q.url,
     videoPath |-> RelPath(DOWNLOADS, q.filename[1]), filename |-> q.filename[1],
     thumbnailUrl |-> q.thumbnailUrl, audioUrl |-> q.audioUrl,
     audioPath |-> audioPath, title |-> q.title, publishedAt |-> q.publishedAt,
     createdAt |-> "now"]

\* variant: the video fetch is spawned without awaiting the probe
PostEager(r, body) ==
    /\ r \in slots
    /\ pc[r] = "idle"
    /\ body \in env.pool
    /\ IF ~requestSchema(body)
       THEN /\ req' = [req EXCEPT ![r].body = Some(body)]
            /\ response' = [response EXCEPT ![r] = ValidationError]
            /\ pc' = [pc EXCEPT ![r] = "done"]
            /\ UNCHANGED launched
       ELSE /\ \E id \in randomUUID(env.ids, UsedIds) :
                LET url == body[1]
                    cleanUrl == cleanInstagramUrl(url)
                IN
                /\ req' = [req EXCEPT ![r] =
                        [NoReq EXCEPT !.body = Some(body), !.url = url, !.id = id,
                                      !.platform = detectPlatform(url),
                                      !.cleanUrl = cleanUrl]]
                /\ launched' = [launched EXCEPT ![r] =
                      << Launch("probe", "yt-dlp", WithCommonArgs(cleanUrl, ProbeArgs(cleanUrl))),
                         Launch("video", "yt-dlp", WithCommonArgs(cleanUrl, VideoArgs(id, cleanUrl))) >>]
            /\ pc' = [pc EXCEPT ![r] = "video"]
            /\ UNCHANGED response
    /\ UNCHANGED <<alone, slots, env, downloads, audios, wrote, records, saves, result>>

\* POST /api/download with this body: a body that fails validation is
\* answered 400; otherwise downloadVideoAndExtractAudio runs up to its first
\* await: id, platform, cleanUrl, and the probe is spawned
Post(r, body) ==
    /\ r \in slots
    /\ pc[r] = "idle"
    /\ body \in env.pool
    /\ IF ~requestSchema(body)
       THEN /\ req' = [req EXCEPT ![r].body = Some(body)]
            /\ response' = [response EXCEPT ![r] = ValidationError]
            /\ pc' = [pc EXCEPT ![r] = "done"]
            /\ UNCHANGED launched
       ELSE /\ \E id \in randomUUID(env.ids, UsedIds) :
                LET url == body[1]
                    cleanUrl == cleanInstagramUrl(url)
                IN
                /\ req' = [req EXCEPT ![r] =
                        [NoReq EXCEPT !.body = Some(body), !.url = url, !.id = id,
                                      !.platform = detectPlatform(url),
                                      !.cleanUrl = cleanUrl]]
                /\ Spawn(r, "probe", "yt-dlp", WithCommonArgs(cleanUrl, ProbeArgs(cleanUrl)))
            /\ pc' = [pc EXCEPT ![r] = "probe"]
            /\ UNCHANGED response
    /\ UNCHANGED <<alone, slots, env, downloads, audios, wrote, records, saves, result>>

\* the running extractor writes one file named after its output template
ChildWrites(r, title, ext) ==
    /\ Running(r)
    /\ Last(r).cmd \notin env.missing
    /\ Last(r).writes < MaxFiles
    /\ OutTemplate(Last(r).args) # None
    /\ LET t == OutTemplate(Last(r).args)[1]
           name == Fill(TemplateName(t), title, ext)
       IN /\ downloads' = IF TemplateDir(t) = DOWNLOADS
                          THEN downloads \cup {name} ELSE downloads
          /\ audios' = IF TemplateDir(t) = AUDIOS
                       THEN audios \cup {name} ELSE audios
          /\ wrote' = [wrote EXCEPT ![r] = @ \cup {<<TemplateDir(t), name>>}]
    /\ launched' = [launched EXCEPT ![r][Len(launched[r])].writes = @ + 1]
    /\ UNCHANGED <<alone, slots, env, pc, req, records, saves, result, response>>

\* variant: a rejected audio extraction is tolerated like a missing audio
\* file
ChildFailsSoftAudio(r, how, code, stderr) ==
    /\ Running(r)
    /\ IF Last(r).cmd \in env.missing THEN how = "spawn-error" ELSE env.flaky
    /\ how = "spawn-error" => (Last(r).writes = 0 /\ code = "null" /\ stderr = <<>>)
    /\ LET c == Last(r)
           msg == IF how = "spawn-error" THEN SpawnFailed(c.cmd)
                  ELSE CommandFailed(code, c.cmd, c.args, stderr)
       IN IF c.cmd = "yt-dlp"
          THEN /\ EndThenSpawn(r, how, c.step, getPythonCommand,
                               << <<"-m">>, <<"yt_dlp">> >> \o c.args)
               /\ UNCHANGED <<pc, response, records, saves, result>>
          ELSE IF c.step = "audio"
          THEN /\ EndChild(r, how)
               /\ result' = [result EXCEPT ![r] = Some(Assemble(req[r], None))]
               /\ records' = saveRecord(records, Assemble(req[r], None))
               /\ saves' = [saves EXCEPT ![r] = @ + 1]
               /\ response' = [response EXCEPT ![r] = Success]
               /\ pc' = [pc EXCEPT ![r] = "done"]
          ELSE /\ EndChild(r, how)
               /\ RespondError(r, msg)
               /\ UNCHANGED <<records, saves, result>>
    /\ UNCHANGED <<alone, slots, env, req, downloads, audios, wrote>>

\* variant: the interpreter attempt is made once more after it rejected
ChildFailsRetrying(r, how, code, stderr) ==
    /\ Running(r)
    /\ IF Last(r).cmd \in env.missing THEN how = "spawn-error" ELSE env.flaky
    /\ how = "spawn-error" => (Last(r).writes = 0 /\ code = "null" /\ stderr = <<>>)
    /\ LET c == Last(r)
           msg == IF how = "spawn-error" THEN SpawnFailed(c.cmd)
                  ELSE CommandFailed(code, c.cmd, c.args, stderr)
           before == IF Len(launched[r]) > 1 THEN launched[r][Len(launched[r]) - 1].cmd
                     ELSE "none"
       IN IF c.cmd = "yt-dlp"
          THEN /\ EndThenSpawn(r, how, c.step, getPythonCommand,
                               << <<"-m">>, <<"yt_dlp">> >> \o c.args)
               /\ UNCHANGED <<pc, response>>
          ELSE IF before = "yt-dlp"
          THEN /\ EndThenSpawn(r, how, c.step, getPythonCommand, c.args)
               /\ UNCHANGED <<pc, response>>
          ELSE /\ EndChild(r, how)
               /\ RespondError(r, msg)
    /\ UNCHANGED <<alone, slots, env, req, downloads, audios, wrote, records, saves, result>>

\* the promise of run rejects (spawn 'error', or 'close' with a code that is
\* not 0).  runYtDlpRaw catches the rejection of the standalone attempt and
\* runs the interpreter form; the rejection of the interpreter attempt
\* propagates to the handler
ChildFails(r, how, code, stderr) ==
    /\ Running(r)
    /\ IF Last(r).cmd \in env.missing THEN how = "spawn-error" ELSE env.flaky
    /\ how = "spawn-error" => (Last(r).writes = 0 /\ code = "null" /\ stderr = <<>>)
    /\ LET c == Last(r)
           msg == IF how = "spawn-error" THEN SpawnFailed(c.cmd)
                  ELSE CommandFailed(code, c.cmd, c.args, stderr)
       IN IF c.cmd = "yt-dlp"
          THEN /\ EndThenSpawn(r, how, c.step, getPythonCommand,
                               << <<"-m">>, <<"yt_dlp">> >> \o c.args)
               /\ UNCHANGED <<pc, response>>
          ELSE /\ EndChild(r, how)
               /\ RespondError(r, msg)
    /\ UNCHANGED <<alone, slots, env, req, downloads, audios, wrote, records, saves, result>>

\* the probe closes with code 0: parse its stdout, derive the enrichment
\* fields, spawn the video fetch
ProbeExits0(r, stdout) ==
    /\ Running(r)
    /\ Last(r).cmd \notin env.missing
    /\ Last(r).step = "probe"
    /\ stdout \in env.stdouts
    /\ LET metadata == ParseMetadata(stdout) IN
       req' = [req EXCEPT ![r].jsonStdout = Some(stdout),
                          ![r].title = Field(metadata, "title"),
                          ![r].thumbnailUrl = thumbnailUrlOf(metadata),
                          ![r].publishedAt = Field(metadata, "upload_date"),
                          ![r].audioUrl = audioUrlOf(metadata, req[r].platform)]
    /\ EndThenSpawn(r, "exit-0", "video", "yt-dlp",
            WithCommonArgs(req[r].cleanUrl, VideoArgs(req[r].id, req[r].cleanUrl)))
    /\ pc' = [pc EXCEPT ![r] = "video"]
    /\ UNCHANGED <<alone, slots, env, downloads, audios, wrote, records, saves, result, response>>

\* the video fetch closes with code 0: the orchestrator awaits import("fs")
VideoExits0(r) ==
    /\ Running(r)
    /\ Last(r).cmd \notin env.missing
    /\ Last(r).step = "video"
    /\ EndChild(r, "exit-0")
    /\ pc' = [pc EXCEPT ![r] = "resolve"]
    /\ UNCHANGED <<alone, slots, env, req, downloads, audios, wrote, records, saves, result, response>>

\* variant: a missing video file is tolerated like a missing audio file
ResolveVideoSoft(r) ==
    /\ pc[r] = "resolve"
    /\ LET files == VideoFilesOf(downloads, req[r].id) IN
       \E filename \in (IF files = {} THEN {<<>>} ELSE files) :
           req' = [req EXCEPT ![r].filename = Some(filename)]
    /\ Spawn(r, "audio", "yt-dlp",
         WithCommonArgs(req[r].cleanUrl, AudioArgs(req[r].id, req[r].cleanUrl)))
    /\ pc' = [pc EXCEPT ![r] = "audio"]
    /\ UNCHANGED <<alone, slots, env, downloads, audios, wrote, records, saves, result, response>>

\* scan downloads/ for the request's file; throw if there is none, else
\* spawn the audio extraction
ResolveVideo(r) ==
    /\ pc[r] = "resolve"
    /\ LET files == VideoFilesOf(downloads, req[r].id) IN
       IF files = {}
       THEN /\ RespondError(r, FileNotFound)
            /\ UNCHANGED <<req, launched>>
       ELSE /\ \E filename \in files :
                req' = [req EXCEPT ![r].filename = Some(filename)]
            /\ Spawn(r, "audio", "yt-dlp",
                 WithCommonArgs(req[r].cleanUrl, AudioArgs(req[r].id, req[r].cleanUrl)))
            /\ pc' = [pc EXCEPT ![r] = "audio"]
            /\ UNCHANGED response
    /\ UNCHANGED <<alone, slots, env, downloads, audios, wrote, records, saves, result>>

\* the audio extraction closes with code 0: scan audios/, assemble the
\* result, return it to the handler, which saves the record and answers
AudioExits0(r) ==
    /\ Running(r)
    /\ Last(r).cmd \notin env.missing
    /\ Last(r).step = "audio"
    /\ EndChild(r, "exit-0")
    /\ LET found == AudioFilesOf(audios, req[r].id) IN
       \E audioPath \in (IF found = {} THEN {None}
                         ELSE {Some(RelPath(AUDIOS, f)) : f \in found}) :
          LET res == Assemble(req[r], audioPath) IN
          /\ result' = [result EXCEPT ![r] = Some(res)]
          /\ records' = saveRecord(records, res)
    /\ saves' = [saves EXCEPT ![r] = @ + 1]
    /\ response' = [response EXCEPT ![r] = Success]
    /\ pc' = [pc EXCEPT ![r] = "done"]
    /\ UNCHANGED <<alone, slots, env, req, downloads, audios, wrote>>

Next ==
    \/ \E r \in Requests, body \in Bodies : Post(r, body)
    \/ \E r \in Requests, title \in Titles, ext \in Exts : ChildWrites(r, title, ext)
    \/ \E r \in Requests, how \in {"spawn-error", "exit-nonzero"},
          code \in ExitCodes, stderr \in Stderrs : ChildFails(r, how, code, stderr)
    \/ \E r \in Requests, stdout \in ProbeStdouts : ProbeExits0(r, stdout)
    \/ \E r \in Requests : VideoExits0(r)
    \/ \E r \in Requests : ResolveVideo(r)
    \/ \E r \in Requests : AudioExits0(r)

Spec == Init /\ [][Next]_vars


\* concurrent requests: all slots arrive and draw any ids; the inputs are
\* narrowed to one URL and one probe output; the standalone executable is not installed, so that
\* every step falls back to the interpreter, which exits with code 0 (it may
\* still write no file, or a file of either extension)
NarrowEnv ==
    [pool |-> {Some(<<"https://", TIKTOK, "/x">>)},
     ids |-> UUIDs,
     stdouts |-> {[json |-> FALSE, text |-> "", meta |-> EmptyMeta]},
     missing |-> {"yt-dlp"}, flaky |-> FALSE]

InitConc == InitWith(Requests, NarrowEnv)

SpecConc == InitConc /\ [][Next]_vars

----------------------------------------------------------------------------
(* Claims *)

Posted == {r \in Requests : pc[r] # "idle"}

\* request r has launched a subprocess of this step that ended this way
Had(r, step, outcomes) ==
    \E i \in 1..Len(launched[r]) :
        launched[r][i].step = step /\ launched[r][i].outcome \in outcomes

Failures == {"spawn-error", "exit-nonzero"}

\* the invocation of this step rejected after the launch fallback
Rejected(r, step) ==
    \E i \in 1..Len(launched[r]) :
        /\ launched[r][i].step = step
        /\ launched[r][i].cmd = getPythonCommand
        /\ launched[r][i].outcome \in Failures

\* C1: of two concurrent requests, the file name and the audio path resolved
\* for one never name a file that a subprocess of the other wrote
C1_NoCrossPickup ==
    \A r \in Posted : \A q \in Posted \ {r} :
        /\ req[r].filename # None =>
               <<DOWNLOADS, req[r].filename[1]>> \notin wrote[q]
        /\ (result[r] # None /\ result[r][1].audioPath # None) =>
               \A f \in wrote[q] : RelPath(f[1], f[2]) # result[r][1].audioPath[1]

\* both requests resolved their video file (the later scan saw the other
\* request's file) and one of them resolved an audio file as well
C1_Witness ==
    /\ req[1].filename # None /\ req[2].filename # None
    /\ wrote[1] # {} /\ wrote[2] # {}
    /\ result[1] # None /\ result[1][1].audioPath # None
    /\ \E f \in wrote[2] : f[1] = AUDIOS

\* C2: the persisted records are exactly those of the requests whose video
\* and audio steps completed; saveRecord ran once for each of them and never
\* for a request that failed, whatever files that request left on disk
C2_RecordIffCompleted ==
    /\ {records[i].id : i \in 1..Len(records)}
           = {req[r].id : r \in {q \in Posted : Had(q, "audio", {"exit-0"})}}
    /\ \A r \in Requests :
          /\ saves[r] = IF result[r] # None THEN 1 ELSE 0
          /\ result[r] # None <=> Had(r, "audio", {"exit-0"})
          /\ response[r].status \notin {0, 200} => saves[r] = 0
    /\ Len(records) = Cardinality({r \in Requests : result[r] # None})

\* a request failed after its video file was written: the file is on disk
\* and no record was stored
C2_Witness ==
    \E r \in Requests :
        /\ response[r].status \notin {0, 200}
        /\ VideoFilesOf(downloads, req[r].id) # {}
        /\ records = <<>>

\* the step that leaves the scan with no file "<id>-*" in downloads/
C3_ScanStep ==
    \A r \in Requests :
        (pc[r] = "resolve" /\ pc'[r] # "resolve"
            /\ VideoFilesOf(downloads, req[r].id) = {})
        => /\ response'[r].details = FileNotFound
           /\ pc'[r] = "done"
           /\ launched'[r] = launched[r]
           /\ records' = records

C3_AfterNotFound ==
    \A r \in Requests :
        response[r].details = FileNotFound
        => /\ result[r] = None
           /\ ~\E i \in 1..Len(launched[r]) : launched[r][i].step = "audio"
           /\ saves[r] = 0
           /\ \A i \in 1..Len(records) : records[i].id # req[r].id

\* C3: when the scan after a successful video fetch finds no file "<id>-*",
\* the request fails with "Downloaded file not found": no result, no audio
\* extraction, no record
C3_NotFoundIsFatal == [][C3_ScanStep]_vars /\ []C3_AfterNotFound

C3_Witness ==
    \E r \in Requests :
        /\ response[r].details = FileNotFound
        /\ Had(r, "video", {"exit-0"})

\* C4: when the audio extraction exits with code 0 and audios/ holds no
\* "<id>-audio*.mp3", the request still succeeds, with videoPath and filename
\* set and audioPath unset
C4_MissingAudioTolerated ==
    \A r \in Requests :
        (/\ Had(r, "audio", {"exit-0"})
         /\ ~\E f \in audios : /\ StartsWith(f, req[r].id \o DASH \o AUDIO)
                                /\ EndsWith(f, DOT \o MP3))
        => /\ result[r] # None
           /\ result[r][1].filename = req[r].filename[1]
           /\ result[r][1].filename # <<>>
           /\ result[r][1].videoPath = RelPath(DOWNLOADS, req[r].filename[1])
           /\ result[r][1].audioPath = None
           /\ response[r] = Success

\* the audio extraction wrote a file that is not an mp3
C4_Witness ==
    \E r \in Requests :
        /\ result[r] # None
        /\ result[r][1].audioPath = None
        /\ req[r].id \o DASH \o AUDIO \o DOT \o MP4 \in audios

\* C5: a probe that exits with code 0 and prints something JSON.parse
\* rejects (the empty string included) leaves the metadata absent; the video
\* fetch is launched all the same, and the result has no title, thumbnailUrl,
\* publishedAt or audioUrl
C5_UnparseableProbeTolerated ==
    \A r \in Requests :
        (req[r].jsonStdout # None /\ ~req[r].jsonStdout[1].json)
        => /\ ParseMetadata(req[r].jsonStdout[1]) = None
           /\ \E i \in 1..Len(launched[r]) : launched[r][i].step = "video"
           /\ req[r].title = None /\ req[r].thumbnailUrl = None
           /\ req[r].publishedAt = None /\ req[r].audioUrl = None
           /\ result[r] # None =>
                /\ result[r][1].title = None
                /\ result[r][1].thumbnailUrl = None
                /\ result[r][1].publishedAt = None
                /\ result[r][1].audioUrl = None

\* a request whose probe printed nothing succeeded, on a TikTok URL
C5_Witness ==
    \E r \in Requests :
        /\ req[r].jsonStdout # None
        /\ req[r].jsonStdout[1].text = ""
        /\ req[r].platform = "tiktok"
        /\ result[r] # None
        /\ response[r] = Success


\* C6: once the video file is resolved, a failing audio-extraction
\* invocation does not discard the video result: the request still yields a
\* DownloadResult carrying the resolved videoPath
C6_AudioFailureKeepsVideo ==
    \A r \in Requests :
        (req[r].filename # None /\ Rejected(r, "audio"))
        => /\ result[r] # None
           /\ result[r][1].videoPath = RelPath(DOWNLOADS, req[r].filename[1])

\* the messages a rejected run of this subprocess can carry
RejectionsOf(c) ==
    {SpawnFailed(c.cmd)}
    \cup {CommandFailed(code, c.cmd, c.args, stderr) :
            code \in ExitCodes, stderr \in Stderrs}

\* C7: an invocation that rejects after the launch fallback ends the request
\* with that error: it is the last subprocess of the request, no result is
\* returned and nothing is stored; a request that passed validation fails in
\* no other way than such a rejection or the missing video file
C7_RejectionPropagates ==
    \A r \in Requests :
        /\ \A step \in {"probe", "video", "audio"} :
              Rejected(r, step)
              => /\ Last(r).step = step /\ Last(r).outcome \in Failures
                 /\ pc[r] = "done"
                 /\ response[r].details \in RejectionsOf(Last(r))
                 /\ response[r].status \notin {0, 200}
                 /\ result[r] = None
                 /\ saves[r] = 0
        /\ response[r].status \notin {0, 200}
              => \/ \E step \in {"probe", "video", "audio"} : Rejected(r, step)
                 \/ response[r].details = FileNotFound
                 \/ launched[r] = <<>> /\ response[r] = ValidationError

\* the video fetch rejected after a probe that succeeded and after it had
\* written a file
C7_Witness ==
    \E r \in Requests :
        /\ Rejected(r, "video")
        /\ Had(r, "probe", {"exit-0"})
        /\ wrote[r] # {}
        /\ response[r].status = 422

StepRank(step) == CASE step = "probe" -> 1 [] step = "video" -> 2 [] step = "audio" -> 3

\* C8: the subprocesses of one request run one after the other: at most one
\* is running, the video fetch starts after the probe has exited, the scan of
\* downloads/ happens after the video fetch has exited, and the audio
\* extraction starts after the video file was resolved
C8_StrictlySequential ==
    \A r \in Requests :
        LET L == launched[r] IN
        /\ \A i \in 1..Len(L) : L[i].outcome = "running" => i = Len(L)
        /\ \A i \in 1..Len(L), j \in 1..Len(L) :
              i < j => StepRank(L[i].step) <= StepRank(L[j].step)
        /\ \A j \in 1..Len(L) :
              L[j].step = "video" =>
                 \E i \in 1..(j - 1) : L[i].step = "probe" /\ L[i].outcome = "exit-0"
        /\ (pc[r] = "resolve" \/ req[r].filename # None) =>
              /\ Had(r, "video", {"exit-0"})
              /\ ~Had(r, "video", {"running"})
        /\ pc[r] = "resolve" => ~Running(r)
        /\ \A j \in 1..Len(L) :
              L[j].step = "audio" =>
                 /\ req[r].filename # None
                 /\ \E i \in 1..(j - 1) : L[i].step = "video" /\ L[i].outcome = "exit-0"

\* the audio extraction is running, after fallbacks in the earlier steps
C8_Witness ==
    \E r \in Requests :
        /\ Running(r) /\ Last(r).step = "audio"
        /\ Len(launched[r]) >= 5

\* C9: every platform-conditional decision of a request agrees with its
\* platform: TikTok flags iff tiktok, Instagram flags iff instagram, query
\* string stripped iff instagram
C9_PlatformDecisionsAgree ==
    \A r \in Posted :
        /\ \A i \in 1..Len(launched[r]) :
              /\ HasRun(launched[r][i].args, TikTokArgs) <=> req[r].platform = "tiktok"
              /\ HasRun(launched[r][i].args, InstagramArgs) <=> req[r].platform = "instagram"
        /\ req[r].cleanUrl =
              IF req[r].platform = "instagram"
              THEN SplitFirst(req[r].url, QMARK) ELSE req[r].url

\* C10: the interpreter form runs if and only if launching the standalone
\* executable failed; a standalone run that exited non-zero is not re-run
C10_FallbackOnlyOnLaunchFailure ==
    \A r \in Requests :
        \A i \in 1..Len(launched[r]) :
            LET c == launched[r][i] IN
            /\ c.cmd = getPythonCommand =>
                  (i > 1 /\ launched[r][i - 1].cmd = "yt-dlp"
                         /\ launched[r][i - 1].outcome = "spawn-error")
            /\ (c.cmd = "yt-dlp" /\ c.outcome = "spawn-error") =>
                  (i < Len(launched[r]) /\ launched[r][i + 1].cmd = getPythonCommand)
            /\ (c.cmd = "yt-dlp" /\ c.outcome = "exit-nonzero") =>
                  ~(i < Len(launched[r]) /\ launched[r][i + 1].cmd = getPythonCommand)


\* the last step of request r rejected, and one of its attempts had exited
\* non-zero: the extractor reported failure
ToolReportedFailure(r) ==
    /\ launched[r] # <<>>
    /\ Rejected(r, Last(r).step)
    /\ Had(r, Last(r).step, {"exit-nonzero"})

\* C12: a request that fails because an extractor invocation exited non-zero
\* is answered with ExtractionError and status 422, whatever the fallback
\* chain did afterwards
C12_ToolFailureIs422 ==
    \A r \in Requests :
        ToolReportedFailure(r)
        => response[r].error = "ExtractionError" /\ response[r].status = 422

NetworkWords == {"network", "connection", "timeout"}

\* C13: an error whose message mentions network, connection or timeout is
\* answered with NetworkError and status 503, whatever else it contains
C13_NetworkIs503 ==
    \A r \in Requests :
        Mentions(response[r].details, NetworkWords)
        => response[r].error = "NetworkError" /\ response[r].status = 503


\* request r was posted with a body that has no url field, or whose url is not
\* a scheme followed by a host
Malformed(r) ==
    /\ req[r].body # None
    /\ LET body == req[r].body[1] IN
       \/ body = None
       \/ body[1][1] # "https://"
       \/ Len(body[1]) = 1
       \/ body[1][2] = QMARK

\* C14: a request whose body lacks the url field or carries a malformed url
\* is answered 400 before the orchestrator runs: no subprocess is launched
\* for it, no file is written, no id is drawn and nothing is stored
C14_MalformedIs400 ==
    \A r \in Requests :
        Malformed(r)
        => /\ response[r].status = 400
           /\ launched[r] = <<>>
           /\ wrote[r] = {} /\ downloads = {} /\ audios = {}
           /\ req[r].id = <<>>
           /\ saves[r] = 0 /\ records = <<>>

C14_Witness ==
    /\ req[1].body \in {Some(None), Some(Some(<<"https://", QMARK, "/x">>))}
    /\ response[1].status = 400


----------------------------------------------------------------------------
(* run(command, args) taken alone (ytDlpService.ts 51-70) *)

MaxChunks == 2      \* 'data' events on the child's stderr

StderrChunks == {<<"ERROR:">>, <<"network">>}
StdoutChunks == {<<"{}">>}

\* code of 'close': 0, another code, null after a signal, and the negated
\* errno that follows a failed spawn
CloseCodes == {"0"} \cup ExitCodes
ENOENT == "-2"

Pending == [state |-> "pending", value |-> None, reason |-> <<>>]

\* resolve and reject of a promise: only the first call settles it
Resolve(p, v) == IF p.state = "pending"
                 THEN [p EXCEPT !.state = "resolved", !.value = Some(v)] ELSE p
Reject(p, e) == IF p.state = "pending"
                THEN [p EXCEPT !.state = "rejected", !.reason = e] ELSE p

\* the child just spawned and the promise run returns
NewProc(command, args) ==
    [phase |-> "spawned", command |-> command, args |-> args,
     stdout |-> <<>>, stderr |-> <<>>, chunks |-> 0,
     errored |-> FALSE, closed |-> None, promise |-> Pending, settled |-> 0]

RunCommands == {"yt-dlp", getPythonCommand}
RunArgs == {ProbeArgs(<<"https://", TIKTOK>>),
            << <<"-m">>, <<"yt_dlp">> >> \o ProbeArgs(<<"https://", TIKTOK>>)}

InitRun ==
    /\ InitRequests({}, WideEnv)
    /\ proc \in {NewProc(c, a) : c \in RunCommands, a \in RunArgs}
    /\ hist = NoHist
    /\ input = <<>>
    /\ output = <<>>

\* child.stdout.on("data")
StdoutData(d) ==
    /\ ~proc.errored /\ proc.closed = None
    /\ proc.stdout = <<>>
    /\ proc' = [proc EXCEPT !.stdout = @ \o d]
    /\ UNCHANGED <<slots, env, pc, req, launched, downloads, audios, wrote,
                   records, saves, result, response, hist, input, output>>

\* child.stderr.on("data")
StderrData(d) ==
    /\ ~proc.errored /\ proc.closed = None
    /\ proc.chunks < MaxChunks
    /\ proc' = [proc EXCEPT !.stderr = @ \o d, !.chunks = @ + 1]
    /\ UNCHANGED <<slots, env, pc, req, launched, downloads, audios, wrote,
                   records, saves, result, response, hist, input, output>>

\* child.on("error", reject): the command could not be spawned; nothing was
\* read from the child before
ErrorEvent ==
    /\ ~proc.errored /\ proc.closed = None
    /\ proc.stdout = <<>> /\ proc.stderr = <<>>
    /\ proc' = [proc EXCEPT !.errored = TRUE,
                            !.promise = Reject(@, SpawnFailed(proc.command)),
                            !.settled = @ + 1]
    /\ UNCHANGED <<slots, env, pc, req, launched, downloads, audios, wrote,
                   records, saves, result, response, hist, input, output>>

\* child.on("close", (code) => ...): after a failed spawn the code is the
\* negated errno
CloseEvent(code) ==
    /\ proc.closed = None
    /\ IF proc.errored THEN code = ENOENT ELSE code \in CloseCodes
    /\ proc' = [proc EXCEPT
            !.closed = Some(code),
            !.promise = IF code = "0"
                        THEN Resolve(@, [stdout |-> proc.stdout, stderr |-> proc.stderr])
                        ELSE Reject(@, CommandFailed(code, proc.command, proc.args,
                                                     proc.stderr)),
            !.settled = @ + 1]
    /\ UNCHANGED <<slots, env, pc, req, launched, downloads, audios, wrote,
                   records, saves, result, response, hist, input, output>>

NextRun ==
    \/ \E d \in StdoutChunks : StdoutData(d)
    \/ \E d \in StderrChunks : StderrData(d)
    \/ ErrorEvent
    \/ \E code \in CloseCodes \cup {ENOENT} : CloseEvent(code)

SpecRun == InitRun /\ [][NextRun]_vars

\* C11: the promise of run resolves with {stdout, stderr} iff the child closed
\* with code 0, and a rejected promise carries an error made of the exit
\* code, the command, the arguments and the captured stderr
C11_RunSettles ==
    LET p == proc.promise IN
    /\ p.state = "resolved" <=> proc.closed = Some("0")
    /\ p.state = "resolved"
       => p.value = Some([stdout |-> proc.stdout, stderr |-> proc.stderr])
    /\ p.state = "rejected"
       => \E code \in CloseCodes \cup {ENOENT} :
             p.reason = CommandFailed(code, proc.command, proc.args, proc.stderr)


----------------------------------------------------------------------------
(* The record store taken alone (part_004) *)

MaxSaves == 3       \* calls of saveRecord

\* DownloadResults to save: one for each id
SampleResults ==
    {Assemble([NoReq EXCEPT !.id = id, !.url = <<"https://", TIKTOK>>,
                            !.filename = Some(id \o DOT \o MP4)], None) : id \in UUIDs}

InitStore ==
    /\ InitRequests({}, WideEnv)
    /\ proc = NoProc
    /\ hist = NoHist
    /\ input = <<>>
    /\ output = <<>>

\* await saveRecord(record)
Save(record) ==
    /\ Len(hist.calls) < MaxSaves
    /\ records' = saveRecord(records, record)
    /\ hist' = [hist EXCEPT !.calls = Append(@, record),
                            !.returned = Append(@, Stored(record))]
    /\ UNCHANGED <<slots, env, pc, req, launched, downloads, audios, wrote,
                   saves, result, response, proc, input, output>>

\* listRecords(), remembered with the number of saves that preceded it
List ==
    /\ hist' = [hist EXCEPT !.listing =
                    Some([after |-> Len(hist.calls), value |-> listRecords(records)])]
    /\ UNCHANGED <<slots, env, pc, req, launched, downloads, audios, wrote,
                   records, saves, result, response, proc, input, output>>

NextStore ==
    \/ \E record \in SampleResults : Save(record)
    \/ List

SpecStore == InitStore /\ [][NextStore]_vars

\* the first n saved inputs, each with a storedAt field added, newest first
NewestFirst(n) == [i \in 1..n |-> hist.calls[n - i + 1] @@ ("storedAt" :> "now")]

\* C15: each saveRecord returns its input with a storedAt field added, and a
\* listing is the saved records in the reverse of the order of the calls, the
\* record saved last first
C15_NewestFirst ==
    /\ \A i \in 1..Len(hist.calls) :
          /\ DOMAIN hist.returned[i] = DOMAIN hist.calls[i] \cup {"storedAt"}
          /\ \A f \in DOMAIN hist.calls[i] : hist.returned[i][f] = hist.calls[i][f]
    /\ hist.listing # None
       => LET l == hist.listing[1] IN
          /\ l.value = NewestFirst(l.after)
          /\ l.after > 0 => l.value[1] = hist.returned[l.after]

C15_Witness ==
    /\ Len(hist.calls) = MaxSaves
    /\ hist.calls[1] # hist.calls[2] /\ hist.calls[2] # hist.calls[3]
    /\ hist.listing # None /\ hist.listing[1].after = MaxSaves


\* the positions of the store that hold the record of request r
StoredAt(r) == {i \in 1..Len(records) : result[r] # None /\ records[i].id = result[r][1].id}

\* C16: two requests for the same URL that both succeed are not merged: each
\* drew its own id, each was saved, and the store holds two records with
\* different ids
C16_NoDedupByUrl ==
    \A r1, r2 \in Requests :
        /\ r1 # r2
        /\ response[r1].status = 200 /\ response[r2].status = 200
        /\ req[r1].url = req[r2].url
        => /\ result[r1][1].id # result[r2][1].id
           /\ Cardinality(StoredAt(r1)) = 1 /\ Cardinality(StoredAt(r2)) = 1
           /\ StoredAt(r1) \cap StoredAt(r2) = {}
           /\ \A i \in StoredAt(r1), j \in StoredAt(r2) :
                 /\ records[i].id # records[j].id
                 /\ records[i].inputUrl = records[j].inputUrl

C16_Witness ==
    /\ response[1].status = 200 /\ response[2].status = 200
    /\ req[1].url = req[2].url
    /\ Len(records) = 2


----------------------------------------------------------------------------
(* detectPlatform and cleanInstagramUrl taken alone (ytDlpService.ts 19-23,
   116-122) *)

NoOutput == [platform |-> None, cleanUrl |-> None, cleanedAgain |-> None]

InitUrl ==
    /\ InitRequests({}, WideEnv)
    /\ proc = NoProc
    /\ hist = NoHist
    /\ input \in Urls
    /\ output = NoOutput

CallDetectPlatform ==
    /\ output.platform = None
    /\ output' = [output EXCEPT !.platform = Some(detectPlatform(input))]
    /\ UNCHANGED <<slots, env, pc, req, launched, downloads, audios, wrote,
                   records, saves, result, response, proc, hist, input>>

CallCleanInstagramUrl ==
    /\ output.cleanUrl = None
    /\ output' = [output EXCEPT !.cleanUrl = Some(cleanInstagramUrl(input))]
    /\ UNCHANGED <<slots, env, pc, req, launched, downloads, audios, wrote,
                   records, saves, result, response, proc, hist, input>>

\* the cleaned URL is cleaned once more
CallCleanAgain ==
    /\ output.cleanUrl # None
    /\ output.cleanedAgain = None
    /\ output' = [output EXCEPT !.cleanedAgain = Some(cleanInstagramUrl(output.cleanUrl[1]))]
    /\ UNCHANGED <<slots, env, pc, req, launched, downloads, audios, wrote,
                   records, saves, result, response, proc, hist, input>>

NextUrl ==
    \/ CallDetectPlatform
    \/ CallCleanInstagramUrl
    \/ CallCleanAgain

SpecUrl == InitUrl /\ [][NextUrl]_vars

\* C17: detectPlatform yields tiktok for every URL that contains the TikTok
\* domain, instagram for every URL that contains the Instagram domain, and
\* unknown exactly for the URLs that contain neither
C17_PlatformOfDomain ==
    output.platform # None
    => /\ Includes(input, TIKTOK) => output.platform[1] = "tiktok"
       /\ Includes(input, INSTAGRAM) => output.platform[1] = "instagram"
       /\ output.platform[1] = "unknown"
          <=> ~Includes(input, TIKTOK) /\ ~Includes(input, INSTAGRAM)


\* the URL an invocation receives: its last argument
UrlGiven(c) == c.args[Len(c.args)]

\* C20: the invocations of a request receive the submitted URL cut at its
\* first '?' when the URL belongs to Instagram and the submitted URL itself
\* otherwise, and the result carries the submitted URL as inputUrl
C20_CleanedOnlyForInstagram ==
    \A r \in Posted :
        /\ \A i \in 1..Len(launched[r]) :
              UrlGiven(launched[r][i]) =
                  IF req[r].platform = "instagram"
                  THEN SplitFirst(req[r].url, QMARK) ELSE req[r].url
        /\ result[r] # None => result[r][1].inputUrl = req[r].body[1][1]

\* cleaning a cleaned URL changes nothing
CleanIsIdempotent ==
    output.cleanedAgain # None => output.cleanedAgain = output.cleanUrl


----------------------------------------------------------------------------
(* The fields derived from the probe metadata taken alone
   (ytDlpService.ts 141-165) *)

MaxFormats == 3     \* entries of metadata.formats

Abrs == {None, Some(64), Some(96), Some(128)}

\* the codecs of an entry: audio only, audio and video, neither (the
\* extractor writes "none" for a codec the entry lacks), no acodec field
Codecs ==
    { [acodec |-> Some("mp4a"), vcodec |-> Some("none")],
      [acodec |-> Some("mp4a"), vcodec |-> Some("avc1")],
      [acodec |-> Some("none"), vcodec |-> Some("none")],
      [acodec |-> None, vcodec |-> Some("none")] }

\* the url of the i-th entry of a list
UrlOf(i) == <<HTTP, "://", i>>

\* a list of formats: the i-th entry has codecs c[i], bitrate a[i] and its
\* own url
FormatList(n, c, a) ==
    [i \in 1..n |-> [acodec |-> c[i].acodec, vcodec |-> c[i].vcodec,
                     abr |-> a[i], url |-> Some(UrlOf(i))]]

\* the lists of thumbnails: none, empty, or entries with or without url
ThumbLists ==
    {None, Some(<<>>),
     Some(<< [url |-> Some(UrlA)] >>),
     Some(<< [url |-> Some(UrlA)], [url |-> Some(UrlB)] >>),
     Some(<< [url |-> Some(UrlA)], [url |-> None] >>)}

\* what a field of the music object may hold: nothing, a string that is or
\* is not an absolute URL, a list whose first element is or is not one, an
\* empty list; every value names its field
MusicValues(field) ==
    { JsUndef,
      JsStr(<<HTTP, "://", field>>),
      JsStr(<<"id:", field>>),
      JsArr(<< <<HTTP, "://", field, "[0]">> >>),
      JsArr(<< <<"id:", field>>, <<HTTP, "://", field, "[1]">> >>),
      JsArr(<<>>) }

\* formats lists beside the music object: none, one without audio-only entry,
\* one with an audio-only entry
MusicFormats ==
    { None,
      Some(<< [acodec |-> Some("mp4a"), vcodec |-> Some("avc1"), abr |-> Some(128),
               url |-> Some(UrlOf(1))] >>),
      Some(<< [acodec |-> Some("mp4a"), vcodec |-> Some("none"), abr |-> None,
               url |-> Some(UrlOf(1))] >>) }

NotDerived == [audioUrl |-> None, thumbnailUrl |-> None]

InitMeta ==
    /\ InitRequests({}, WideEnv)
    /\ proc = NoProc
    /\ hist = NoHist
    /\ \E p \in {"tiktok", "instagram", "unknown"} :
          \/ \E n \in 0..MaxFormats : \E c \in [1..n -> Codecs], a \in [1..n -> Abrs] :
                input = [metadata |-> Some([EmptyMeta EXCEPT
                                              !.formats = Some(FormatList(n, c, a))]),
                         platform |-> p]
          \/ \E ts \in ThumbLists, t \in {None, Some(UrlB)} :
                input = [metadata |-> Some([EmptyMeta EXCEPT
                                              !.thumbnails = ts, !.thumbnail = t]),
                         platform |-> p]
          \/ \E key \in {"music", "track", "song"}, fs \in MusicFormats,
                pu \in MusicValues("playUrl"), du \in MusicValues("downloadUrl"),
                u \in MusicValues("url") :
                input = [metadata |-> Some([EmptyMeta EXCEPT
                              !.formats = fs,
                              ![key] = Some([playUrl |-> pu, downloadUrl |-> du,
                                             url |-> u])]),
                         platform |-> p]
    /\ output = NotDerived

DeriveAudioUrl ==
    /\ output.audioUrl = None
    /\ output' = [output EXCEPT !.audioUrl =
                     Some(audioUrlOf(input.metadata, input.platform))]
    /\ UNCHANGED <<slots, env, pc, req, launched, downloads, audios, wrote,
                   records, saves, result, response, proc, hist, input>>

DeriveThumbnailUrl ==
    /\ output.thumbnailUrl = None
    /\ output' = [output EXCEPT !.thumbnailUrl = Some(thumbnailUrlOf(input.metadata))]
    /\ UNCHANGED <<slots, env, pc, req, launched, downloads, audios, wrote,
                   records, saves, result, response, proc, hist, input>>

NextMeta ==
    \/ DeriveAudioUrl
    \/ DeriveThumbnailUrl

SpecMeta == InitMeta /\ [][NextMeta]_vars

\* the entries that declare an audio codec (they have an acodec field) and
\* whose video codec is "none"
AudioOnlyAt(fs) ==
    {i \in 1..Len(fs) : fs[i].acodec # None /\ fs[i].vcodec = Some("none")}

Bitrate(f) == IF f.abr = None THEN 0 ELSE f.abr[1]

C19_BestThumbnail ==
    LET m == input.metadata[1] IN
    output.thumbnailUrl # None
    => IF m.thumbnails # None /\ Len(m.thumbnails[1]) > 0
       THEN output.thumbnailUrl[1] = m.thumbnails[1][Len(m.thumbnails[1])].url
       ELSE m.thumbnail # None => output.thumbnailUrl[1] = m.thumbnail


----------------------------------------------------------------------------
(* Claims C21 to C30 *)

\* the TikTok domain occurs in the URL before any '?'
IsTikTokUrl(u) == Includes(SplitFirst(u, QMARK), TIKTOK)

\* the arguments the extractor is given: the interpreter form passes them
\* after "-m yt_dlp"
ExtractorArgs(c) ==
    IF c.cmd = "yt-dlp" THEN c.args ELSE SubSeq(c.args, 3, Len(c.args))

\* where the arguments of the operation begin
OpStart(a) == CHOOSE k \in 1..Len(a) :
                 /\ a[k] \in {<<"-J">>, <<"-f">>, <<"-x">>}
                 /\ \A j \in 1..(k - 1) : a[j] \notin {<<"-J">>, <<"-f">>, <<"-x">>}

\* C21: for a TikTok URL every invocation of the request gives the extractor
\* arguments that start with the base profile and have the TikTok
\* --extractor-args flag and --ignore-errors before the arguments of the
\* operation, and a success has platform tiktok and a non-empty videoPath
C21_TikTokProfile ==
    \A r \in Posted :
        IsTikTokUrl(req[r].url)
        => /\ \A i \in 1..Len(launched[r]) :
                 LET a == ExtractorArgs(launched[r][i]) IN
                 /\ SubSeq(a, 1, 3) = << <<"--geo-bypass">>, <<"--user-agent">>, MODERN_UA >>
                 /\ \E k \in 4..(OpStart(a) - 2) :
                       /\ a[k] = <<"--extractor-args">>
                       /\ a[k + 1] = <<"tiktok:player_url=1,music_download=1,age_restricted=1,bypass_age_gate=1">>
                 /\ \E k \in 4..(OpStart(a) - 1) : a[k] = <<"--ignore-errors">>
           /\ response[r].status = 200
              => /\ result[r][1].platform = "tiktok"
                 /\ result[r][1].videoPath # <<>>
                 /\ records[1].platform = "tiktok"

\* a TikTok request succeeded after all three steps, one of them through the
\* interpreter
C21_Witness ==
    /\ IsTikTokUrl(req[1].url)
    /\ response[1].status = 200
    /\ \E i \in 1..Len(launched[1]) : launched[1][i].cmd # "yt-dlp"
    /\ {launched[1][i].step : i \in 1..Len(launched[1])} = {"probe", "video", "audio"}


\* the video fetch of request r resolved and the scan of downloads/ found no
\* file of the request: the request ended there
VideoFileMissing(r) ==
    /\ pc[r] = "done"
    /\ launched[r] # <<>>
    /\ Last(r).step = "video" /\ Last(r).outcome = "exit-0"

\* C25: the missing video file is answered NotFoundError with status 404
C25_NotFoundIs404 ==
    \A r \in Requests :
        VideoFileMissing(r)
        => response[r].error = "NotFoundError" /\ response[r].status = 404

\* the fetch went through the interpreter, exited with code 0 and left no file
C25_Witness ==
    /\ VideoFileMissing(1)
    /\ Last(1).cmd # "yt-dlp"
    /\ response[1].status = 404


\* the artifacts of a result or record d are named after its id
NamedAfterId(d) ==
    /\ SubSeq(d.filename, 1, Len(d.id) + 1) = d.id \o <<"-">>
    /\ d.videoPath # <<>>
    /\ d.videoPath = <<"downloads", "/">> \o d.filename
    /\ \/ d.audioPath = None
       \/ LET p == d.audioPath[1]
              name == SubSeq(p, 3, Len(p))
              prefix == d.id \o <<"-", "a", "u", "d", "i", "o">>
          IN /\ SubSeq(p, 1, 2) = <<"audios", "/">>
             /\ SubSeq(name, 1, Len(prefix)) = prefix
             /\ Len(name) >= Len(prefix) + 4
             /\ SubSeq(name, Len(name) - 3, Len(name)) = <<".", "m", "p", "3">>

\* C29: every returned result and every stored record carries the id of its
\* request, a filename that begins with "<id>-", the videoPath of that file in
\* downloads/, and an audioPath that is unset or a file of audios/ that
\* begins with "<id>-audio" and ends with ".mp3"
C29_ArtifactsNamedAfterId ==
    /\ \A r \in Requests :
          result[r] # None
          => /\ result[r][1].id = req[r].id
             /\ NamedAfterId(result[r][1])
             /\ result[r][1].filename \in downloads
    /\ \A i \in 1..Len(records) : NamedAfterId(records[i])

\* two concurrent results: one with an audio file, one without
C29_Witness ==
    /\ result[1] # None /\ result[2] # None
    /\ result[1][1].audioPath # None
    /\ result[2][1].audioPath = None
    /\ Len(records) = 2


\* the positions of the launches request r made for this step
LaunchesOf(r, step) == {i \in 1..Len(launched[r]) : launched[r][i].step = step}

\* C30: a step launches at most two subprocesses, the interpreter form only
\* right after the standalone form rejected and never after it resolved; when
\* both reject, the request is answered with the error of the interpreter
\* attempt; a request launches at most six subprocesses
C30_AtMostTwoPerStep ==
    \A r \in Requests :
        /\ Len(launched[r]) <= 6
        /\ \A step \in {"probe", "video", "audio"} :
              LET at == LaunchesOf(r, step) IN
              /\ Cardinality(at) <= 2
              /\ \A i \in at :
                    /\ (i - 1) \in at
                       => /\ launched[r][i - 1].cmd = "yt-dlp"
                          /\ launched[r][i - 1].outcome \in {"spawn-error", "exit-nonzero"}
                          /\ launched[r][i].cmd = getPythonCommand
                    /\ launched[r][i].outcome = "exit-0" => (i + 1) \notin at
              /\ (Cardinality(at) = 2
                  /\ \A i \in at : launched[r][i].outcome \in {"spawn-error", "exit-nonzero"})
                 => /\ pc[r] = "done"
                    /\ response[r].details \in RejectionsOf(Last(r))
                    /\ Last(r).cmd = getPythonCommand
                    /\ ~Includes(response[r].details, "yt-dlp")

\* six launches: every step fell back, and the last attempt rejected too
C30_Witness ==
    /\ Len(launched[1]) = 6
    /\ launched[1][5].outcome = "exit-nonzero"
    /\ launched[1][6].outcome = "exit-nonzero"
    /\ response[1].status = 422


\* the music object of the metadata m, if it has one
MusicObject(m) ==
    IF m.music # None THEN m.music
    ELSE IF m.track # None THEN m.track ELSE m.song

\* the candidates in the order of the claim, each as a string if it is one
CandidateStrings(mu) ==
    LET asString(v) == IF v.kind = "string" THEN Some(v.str) ELSE None
        firstOf(v) == IF v.kind = "array" /\ v.arr # <<>> THEN Some(v.arr[1]) ELSE None
    IN << asString(mu.playUrl), asString(mu.downloadUrl), asString(mu.url),
          firstOf(mu.playUrl), firstOf(mu.downloadUrl), firstOf(mu.url) >>

LooksAbsolute(c) == c # None /\ c[1] # <<>> /\ c[1][1] = "http"

\* the metadata has a formats list with an audio-only entry
HasAudioStream(m) == m.formats # None /\ AudioOnlyAt(m.formats[1]) # {}

\* C26: the music fields are consulted only when no audio-only stream was
\* selected and the platform is tiktok; audioUrl is then the first candidate
\* (playUrl, downloadUrl, url, then the first elements of the list-typed
\* playUrl, downloadUrl, url) that is a string starting with "http", unset if
\* there is none; on the other platforms without audio-only stream audioUrl
\* is unset
C26_MusicFallback ==
    LET m == input.metadata[1]
        cs == IF MusicObject(m) = None THEN <<>> ELSE CandidateStrings(MusicObject(m)[1])
        hits == {k \in 1..Len(cs) : LooksAbsolute(cs[k])}
    IN output.audioUrl # None
       => /\ HasAudioStream(m)
             => \E i \in AudioOnlyAt(m.formats[1]) :
                   output.audioUrl[1] = m.formats[1][i].url
          /\ (~HasAudioStream(m) /\ input.platform # "tiktok")
             => output.audioUrl[1] = None
          /\ (~HasAudioStream(m) /\ input.platform = "tiktok")
             => IF hits = {} THEN output.audioUrl[1] = None
                ELSE \E k \in hits :
                        /\ \A j \in hits : k <= j
                        /\ output.audioUrl[1] = cs[k]

\* tiktok, no audio-only stream, playUrl not a URL, downloadUrl a list whose
\* first element is a URL, url a URL string: url is taken
C26_Witness ==
    LET m == input.metadata[1] IN
    /\ output.audioUrl # None
    /\ input.platform = "tiktok" /\ ~HasAudioStream(m)
    /\ m.track # None
    /\ m.track[1].playUrl.kind = "string" /\ ~LooksAbsolute(Some(m.track[1].playUrl.str))
    /\ m.track[1].downloadUrl = JsArr(<< <<"http", "://", "downloadUrl", "[0]">> >>)
    /\ m.track[1].url.kind = "string"
    /\ output.audioUrl[1] = Some(m.track[1].url.str)
    /\ output.audioUrl[1] = Some(<<"http", "://", "url">>)


----------------------------------------------------------------------------
(* The server (part_005): its directories and its middleware chain, beside
   the handling of one download request *)

\* NODE_ENV, whether frontend/dist exists, DOWNLOADS_DIR and AUDIOS_DIR (the
\* first value of each is the default)
Configs ==
    [production : BOOLEAN, frontend : BOOLEAN,
     downloadsDir : {"downloads", "videos"}, audiosDir : {"audios", "sounds"}]

\* the middleware and routes in the order of their registration
Chain(cfg) ==
    << "cors", "morgan", "requestLogger", "json", "static-downloads",
       "static-audios", "health", "api-router", "api-doc", "error-handler",
       "not-found" >>
    \o (IF cfg.production /\ cfg.frontend
        THEN << "static-frontend", "catch-all" >> ELSE <<>>)

\* the files of the directory named dir under the working directory: the
\* orchestrator writes into downloads/ and audios/
FilesIn(dir) ==
    IF dir = DOWNLOADS THEN downloads
    ELSE IF dir = AUDIOS THEN audios
    ELSE {}

NotFoundJson == [status |-> 404, body |-> "json: Not found", file |-> <<>>]
IndexHtml == [status |-> 200, body |-> "frontend/dist/index.html", file |-> <<>>]
FileOf(dir, name) == [status |-> 200, body |-> dir, file |-> name]

ReservedPrefixes == {"/api", "/downloads", "/audios", "/health"}

\* what a layer answers to GET path, if it answers
Handle(layer, cfg, path) ==
    LET name == SubSeq(path, 3, Len(path)) IN
    CASE layer = "static-downloads" ->
            IF path[1] = "/downloads" /\ name \in FilesIn(cfg.downloadsDir)
            THEN Some(FileOf(cfg.downloadsDir, name)) ELSE None
      [] layer = "static-audios" ->
            IF path[1] = "/audios" /\ name \in FilesIn(cfg.audiosDir)
            THEN Some(FileOf(cfg.audiosDir, name)) ELSE None
      [] layer = "health" ->
            IF path = <<"/health">>
            THEN Some([status |-> 200, body |-> "json: health", file |-> <<>>]) ELSE None
      [] layer = "api-doc" ->
            IF path = <<"/api">>
            THEN Some([status |-> 200, body |-> "text: api", file |-> <<>>]) ELSE None
      [] layer = "not-found" -> Some(NotFoundJson)
      [] layer = "static-frontend" ->
            IF path = <<"/">> THEN Some(IndexHtml) ELSE None
      [] layer = "catch-all" ->
            IF path[1] \notin ReservedPrefixes THEN Some(IndexHtml) ELSE None
      [] OTHER -> None

\* the paths a client asks for: fixed ones, and the files of the results
GetPaths ==
    { <<"/">>, <<"/app">>, <<"/health">>, <<"/api">>, <<"/downloads", "/", "x">> }
    \cup { <<"/downloads", "/">> \o result[r][1].filename
             : r \in {q \in Requests : result[q] # None} }
    \cup { <<"/audios", "/">> \o SubSeq(result[r][1].audioPath[1], 3,
                                       Len(result[r][1].audioPath[1]))
             : r \in {q \in Requests : result[q] # None /\ result[q][1].audioPath # None} }

\* every path a client may ask for
AllPaths ==
    { <<"/">>, <<"/app">>, <<"/health">>, <<"/api">>, <<"/downloads", "/", "x">> }
    \cup { <<dir, "/">> \o Fill(TemplateName(t), title, ext)
            : dir \in {"/downloads", "/audios"},
              t \in UNION {{outputTemplate(id), audioTemplate(id)} : id \in UUIDs},
              title \in Titles, ext \in Exts }

ServerEnv ==
    [pool |-> {Some(<<"https://", TIKTOK, "/x">>)},
     ids |-> {[i \in 1..IdLen |-> "a"]},
     stdouts |-> {[json |-> FALSE, text |-> "", meta |-> EmptyMeta]},
     missing |-> {"yt-dlp"}, flaky |-> FALSE]

\* the server has started: its directories exist and the chain is registered
InitServer ==
    /\ InitRequests({1}, ServerEnv)
    /\ proc = NoProc
    /\ hist = NoHist
    /\ input \in Configs
    /\ output = [dirs |-> {input.downloadsDir, "data", input.audiosDir},
                 request |-> None, layer |-> 0, answer |-> None]

\* GET path arrives
Get(path) ==
    /\ output.request = None
    /\ path \in GetPaths
    /\ output' = [output EXCEPT !.request = Some(path), !.layer = 1]
    /\ UNCHANGED <<slots, env, pc, req, launched, downloads, audios, wrote,
                   records, saves, result, response, proc, hist, input>>

\* the layer the request is at answers it
Answer ==
    /\ output.layer > 0 /\ output.answer = None
    /\ LET a == Handle(Chain(input)[output.layer], input, output.request[1]) IN
       /\ a # None
       /\ output' = [output EXCEPT !.answer = a]
    /\ UNCHANGED <<slots, env, pc, req, launched, downloads, audios, wrote,
                   records, saves, result, response, proc, hist, input>>

\* the layer the request is at calls next()
Pass ==
    /\ output.layer > 0 /\ output.answer = None
    /\ output.layer < Len(Chain(input))
    /\ Chain(input)[output.layer] # "catch-all"
    /\ Handle(Chain(input)[output.layer], input, output.request[1]) = None
    /\ output' = [output EXCEPT !.layer = @ + 1]
    /\ UNCHANGED <<slots, env, pc, req, launched, downloads, audios, wrote,
                   records, saves, result, response, proc, hist, input>>

NextServer ==
    \/ Next
    \/ \E path \in AllPaths : Get(path)
    \/ Answer
    \/ Pass

SpecServer == InitServer /\ [][NextServer]_vars

\* C22: for every DOWNLOADS_DIR and AUDIOS_DIR the video file of a successful
\* result is answered at /downloads/<filename> and its audio file at
\* /audios/<name>: the served directories are the ones the orchestrator
\* writes into
C22_ServedWhereWritten ==
    \A r \in Requests :
        (result[r] # None /\ output.answer # None)
        => /\ output.request[1] = <<"/downloads", "/">> \o result[r][1].filename
              => output.answer[1] = FileOf("downloads", result[r][1].filename)
           /\ (output.request[1][1] = "/audios" /\ result[r][1].audioPath # None)
              => output.answer[1].status = 200

\* C23: in production with a frontend build, a GET for a path outside /api,
\* /downloads, /audios and /health is answered with the frontend's index.html
C23_FrontendServed ==
    (input.production /\ input.frontend /\ output.answer # None
        /\ output.request[1][1] \notin {"/api", "/downloads", "/audios", "/health"})
    => output.answer[1] = IndexHtml


----------------------------------------------------------------------------
(* The multi-URL variant of the orchestrator (part_003 322-453): its probe
   loop and the URL it uses afterwards.  One call of runYtDlpWithFallbacks is
   taken as a whole: it resolves or rejects. *)

REEL == "/reel/"

\* url.split('/reel/')[1].split('/')[0]
ReelId(url) ==
    LET at == CHOOSE i \in 1..Len(url) : url[i] = REEL /\ \A j \in 1..(i - 1) : url[j] # REEL
    IN IF at < Len(url) /\ url[at + 1] # "/" THEN <<url[at + 1]>> ELSE <<>>

getAlternativeInstagramUrls(url) ==
    IF ~Includes(url, INSTAGRAM) THEN <<url>>
    ELSE LET cleanUrl == SplitFirst(url, QMARK) IN
         <<cleanUrl>>
         \o (IF Includes(cleanUrl, REEL)
             THEN << <<"https://", "www.", INSTAGRAM, REEL>> \o ReelId(cleanUrl) \o <<"/embed/">>,
                     <<"https://", "www.", INSTAGRAM, "/p/">> \o ReelId(cleanUrl) \o <<"/">> >>
             ELSE <<>>)

MultiUrls ==
    { <<"https://", INSTAGRAM, REEL, "abc", "/", QMARK, "igsh">>,
      <<"https://", "www.", INSTAGRAM, REEL, "abc", "/embed/">>,
      <<"https://", INSTAGRAM, REEL>>,
      <<"https://", INSTAGRAM, "/p/", "abc">>,
      <<"https://", TIKTOK, "/x">> }

\* one call of runYtDlpWithFallbacks
Call(step, url, awaited) ==
    [step |-> step, url |-> url, awaited |-> awaited, outcome |-> "running"]

InitMulti ==
    /\ InitRequests({}, WideEnv)
    /\ proc = NoProc
    /\ hist = NoHist
    /\ input \in MultiUrls
    /\ output = [phase |-> "probing",
                 urlsToTry |-> getAlternativeInstagramUrls(input),
                 calls |-> << Call("probe", getAlternativeInstagramUrls(input)[1], TRUE) >>,
                 jsonStdout |-> "", workingUrl |-> None]

\* the call the orchestrator is awaiting: the last awaited one
Awaited == CHOOSE i \in 1..Len(output.calls) :
              /\ output.calls[i].awaited
              /\ \A j \in (i + 1)..Len(output.calls) : ~output.calls[j].awaited

Settle(i, outcome) == [output.calls EXCEPT ![i].outcome = outcome]

\* the awaited probe of a candidate rejects: the loop goes on to the next
\* candidate, or throws after the last one
MultiProbeRejects ==
    /\ output.phase = "probing"
    /\ output.calls[Awaited].outcome = "running"
    /\ LET n == Cardinality({i \in 1..Len(output.calls) : output.calls[i].step = "probe"}) IN
       IF n < Len(output.urlsToTry)
       THEN output' = [output EXCEPT
                !.calls = Append(Settle(Awaited, "rejected"),
                                 Call("probe", output.urlsToTry[n + 1], TRUE))]
       ELSE output' = [output EXCEPT !.calls = Settle(Awaited, "rejected"),
                                     !.phase = "failed"]
    /\ UNCHANGED <<slots, env, pc, req, launched, downloads, audios, wrote,
                   records, saves, result, response, proc, hist, input>>

\* the awaited probe resolves: the loop breaks; an empty stdout throws;
\* otherwise urlsToTry.find starts a probe of a candidate without awaiting it
\* and returns true at once, and the video fetch is started with that
\* candidate
MultiProbeResolves(stdout) ==
    /\ output.phase = "probing"
    /\ output.calls[Awaited].outcome = "running"
    /\ IF stdout = ""
       THEN output' = [output EXCEPT !.calls = Settle(Awaited, "resolved"),
                                     !.phase = "failed"]
       ELSE LET workingUrl == output.urlsToTry[1] IN
            output' = [output EXCEPT
                !.jsonStdout = stdout,
                !.workingUrl = Some(workingUrl),
                !.calls = Settle(Awaited, "resolved")
                          \o << Call("probe", workingUrl, FALSE),
                                Call("video", workingUrl, TRUE) >>,
                !.phase = "video"]
    /\ UNCHANGED <<slots, env, pc, req, launched, downloads, audios, wrote,
                   records, saves, result, response, proc, hist, input>>

\* the probe nobody awaits settles
UnawaitedSettles(outcome) ==
    /\ \E i \in 1..Len(output.calls) :
          /\ ~output.calls[i].awaited /\ output.calls[i].outcome = "running"
          /\ output' = [output EXCEPT !.calls = Settle(i, outcome)]
    /\ UNCHANGED <<slots, env, pc, req, launched, downloads, audios, wrote,
                   records, saves, result, response, proc, hist, input>>

\* the video fetch settles: on success the audio extraction is started with
\* the same URL (the file scans are left out)
MultiVideoSettles(outcome) ==
    /\ output.phase = "video"
    /\ output.calls[Awaited].outcome = "running"
    /\ IF outcome = "resolved"
       THEN output' = [output EXCEPT
                !.calls = Append(Settle(Awaited, outcome),
                                 Call("audio", output.workingUrl[1], TRUE)),
                !.phase = "audio"]
       ELSE output' = [output EXCEPT !.calls = Settle(Awaited, outcome),
                                     !.phase = "failed"]
    /\ UNCHANGED <<slots, env, pc, req, launched, downloads, audios, wrote,
                   records, saves, result, response, proc, hist, input>>

MultiAudioSettles(outcome) ==
    /\ output.phase = "audio"
    /\ output.calls[Awaited].outcome = "running"
    /\ output' = [output EXCEPT
            !.calls = Settle(Awaited, outcome),
            !.phase = IF outcome = "resolved" THEN "done" ELSE "failed"]
    /\ UNCHANGED <<slots, env, pc, req, launched, downloads, audios, wrote,
                   records, saves, result, response, proc, hist, input>>

NextMulti ==
    \/ MultiProbeRejects
    \/ \E stdout \in {"", "{}"} : MultiProbeResolves(stdout)
    \/ \E outcome \in {"resolved", "rejected"} : UnawaitedSettles(outcome)
    \/ \E outcome \in {"resolved", "rejected"} : MultiVideoSettles(outcome)
    \/ \E outcome \in {"resolved", "rejected"} : MultiAudioSettles(outcome)

SpecMulti == InitMulti /\ [][NextMulti]_vars

\* C27: the video fetch and the audio extraction use the first candidate
\* whose awaited probe did not throw, and every probe that is launched is
\* awaited
C27_WorkingUrlWasProbed ==
    /\ \A i \in 1..Len(output.calls) :
          output.calls[i].step = "probe" => output.calls[i].awaited
    /\ \A i \in 1..Len(output.calls) :
          output.calls[i].step \in {"video", "audio"}
          => \E k \in 1..Len(output.calls) :
                /\ output.calls[k].step = "probe" /\ output.calls[k].awaited
                /\ output.calls[k].outcome = "resolved"
                /\ output.calls[k].url = output.calls[i].url


----------------------------------------------------------------------------
(* C28: the store is append-only *)

\* old is new with the element at position k taken out
Without(new, k) == [i \in 1..(Len(new) - 1) |-> IF i < k THEN new[i] ELSE new[i + 1]]

\* C28: every saveRecord call adds exactly one record to the store and leaves
\* the records it held unchanged in content and relative order, nothing else
\* changes the store, and whatever the interleaving of the requests, each
\* request answered with success has its one record in the store
C28_AppendOnly ==
    /\ [][/\ saves' # saves
             => /\ Len(records') = Len(records) + 1
                /\ \E k \in 1..Len(records') : records = Without(records', k)
          /\ saves' = saves => records' = records]_vars
    /\ [](\A r \in Requests :
             response[r].status = 200 => Cardinality(StoredAt(r)) = 1)

\* two requests ran interleaved and both were saved, the second one first
C28_Witness ==
    /\ Len(records) = 2
    /\ result[1] # None /\ result[2] # None
    /\ records[1].id = result[1][1].id
    /\ records[2].id = result[2][1].id
    /\ records[1].id # records[2].id


----------------------------------------------------------------------------
(* Termination of a request (C24) *)

\* the current child of request r emits 'close' or 'error'
ChildEnds(r) ==
    \/ \E how \in {"spawn-error", "exit-nonzero"}, code \in ExitCodes, stderr \in Stderrs :
          ChildFails(r, how, code, stderr)
    \/ \E stdout \in ProbeStdouts : ProbeExits0(r, stdout)
    \/ VideoExits0(r)
    \/ AudioExits0(r)

\* one request, for a good URL or without a body; each child may fail or
\* exit with code 0
LiveEnv ==
    [pool |-> {Some(<<"https://", TIKTOK, "/x">>), None},
     ids |-> {[i \in 1..IdLen |-> "a"]},
     stdouts |-> {[json |-> FALSE, text |-> "", meta |-> EmptyMeta]},
     missing |-> {}, flaky |-> TRUE]

InitLive == InitWith({1}, LiveEnv)

\* every launched child eventually ends, and the event loop eventually runs
\* the continuation of a settled await
SpecLive ==
    /\ InitLive
    /\ [][Next]_vars
    /\ \A r \in Requests : WF_vars(ChildEnds(r)) /\ WF_vars(ResolveVideo(r))

ErrorStatuses == {400, 403, 404, 422, 500, 503}

\* C24: when every child ends, a posted request eventually is done and holds
\* one response, a success or a categorized error; the response is sent once
\* and never changes; and while a child of the request is running the request
\* is neither done nor answered, whatever time passes: only the end of the
\* child moves it on
C24_EveryRequestAnswered ==
    /\ \A r \in Requests :
          (pc[r] # "idle") ~> (pc[r] = "done" /\ response[r].status \in {200} \cup ErrorStatuses)
    /\ [][\A r \in Requests :
             /\ response[r].status # 0 => response'[r] = response[r]
             /\ (Running(r) /\ launched'[r] = launched[r])
                => (pc'[r] = pc[r] /\ response'[r] = response[r])]_vars
    /\ [](\A r \in Requests :
             /\ Running(r) => (pc[r] # "done" /\ response[r].status = 0)
             /\ pc[r] = "done" <=> response[r].status # 0)

\* a request went through all three steps, the fallback included, and was
\* answered
C24_Witness ==
    \E r \in Requests :
        /\ pc[r] = "done" /\ response[r].status = 200
        /\ Len(launched[r]) > 3
        /\ ~Running(r)

====
